---------------------------- MODULE Spec2Model ----------------------------
(***************************************************************************)
(* Recording sessions of osh: the session object (RecordingSession), the   *)
(* worker thread it spawns, the audio engine (record_audio_only and        *)
(* record_audio), the screen engine (record_screen with its stop-event     *)
(* watcher) and the coordinator record_screen_and_audio.                   *)
(*                                                                         *)
(* The module holds several specifications over one set of variables:      *)
(*   Spec        RecordingSession.start/stop called from one caller thread *)
(*               (the hotkey listener), interleaved with worker threads.   *)
(*   SpecAudio   record_audio_only: timer, monitor and the chunk loop;     *)
(*               SpecAudioTimed adds the duration of reads and sleeps.     *)
(*   SpecScreen  record_screen: encoder process, settle delay, watcher;    *)
(*               FairSpecScreen adds the scheduling of its threads.        *)
(*   SpecCoordinator  record_screen_and_audio (screen_audio_recorder.py).  *)
(*   SpecMerger  combine_audio_video (recorders/utils.py), with floats as  *)
(*               binary fractions of FractionBits digits.                  *)
(*   SpecKeyboard  KeyboardShortcutHandler: key press and release events   *)
(*               delivered by the pynput listener.                         *)
(* Each specification leaves the other components in their initial state.  *)
(*                                                                         *)
(* Source revisions.  recording_handler.py calls record_audio_only and     *)
(* record_screen_and_audio with the keywords manual_stop_event,            *)
(* on_recording_started and status_callback.  The definitions present in   *)
(* the source (audio_recorder.py:17, screen_audio_recorder.py:321) do not  *)
(* declare all of them, so with these revisions the call itself raises     *)
(* TypeError, which the worker's except clause handles (W_Raise).  The     *)
(* worker is modelled with both outcomes of the call: it raises, or it     *)
(* runs the engines.  The coordinator that takes a stop event is not in    *)
(* the source; its join-and-merge step (V_Merge) follows the design text.  *)
(***************************************************************************)
EXTENDS Integers, Sequences, FiniteSets, TLC

\* ------------------------------------------------------------------ bounds
\* Number of start() calls that are accepted in one run of the model.
MaxSessions == 2
\* record_audio's buffer cap and chunk length, scaled down from 1800 * fs
\* frames and 1024 frames; the cap is not a multiple of the chunk length in
\* the source either (1800 * 44100 = 77519 * 1024 + 544).
max_frames == 7
chunk_size == 2
\* screen_audio_recorder.record_screen_and_audio: the durations it is called
\* with, and the sample rate (frames per second), scaled down from 44100.
MaxDuration == 3
fs == 3
\* combine_audio_video: file durations and completion times are decimal
\* numbers of tenths of a second up to these limits; a Python float keeps
\* FractionBits binary digits after the point (scaled down from 52).
MaxTenths == 3
MaxClockTenths == 2
FractionBits == 7
\* Toggle callback invocations followed in one run of the keyboard handler.
MaxToggles == 2

\* --------------------------------------------------------------- constants
\* monitor_events sleeps 0.1 s between polls; one chunk read of 1024 frames at
\* fs = 44100 blocks for 1024 / 44100 s, so 4 whole chunk reads fit in a sleep.
PollChunks == 4

\* ------------------------------------------------------------- vocabulary
Modes == {"audio", "video"}
None == 0
SessionIds == 1..MaxSessions
\* A threading.Event is identified by the session that allocated it.
EventIds == SessionIds

VARIABLES
  \* RecordingSession fields (recording_handler.py:15-23)
  is_recording, recording_path, recording_thread, manual_stop_event,
  recording_mode, recording_actually_started,
  \* last message handed to status_callback
  status,
  \* events[e]: the flag of threading.Event e
  events,
  \* number of accepted start() calls so far
  nStarted,
  \* the caller thread: position, the mode argument, the last return value
  callerPc, callerArg, ret,
  \* w[i]: the worker thread spawned by the i-th accepted start()
  w

sessVars == <<is_recording, recording_path, recording_thread, manual_stop_event,
              recording_mode, recording_actually_started, status, events,
              nStarted, callerPc, callerArg, ret, w>>

VARIABLES
  \* record_audio_only (audio_recorder.py): its three events
  ao_manual_stop_event, duration_stop_event, stop_event,
  \* positions of its main thread, of monitor_events and of duration_timer
  ao_pc, monitor_pc, timer_pc,
  \* record_audio (recorders/recorder.py): frames read, the buffer, the result
  offset, recording, ao_result,
  \* the length of the last chunk requested from the stream
  this_chunk,
  \* chunk reads begun since manual_stop_event was set
  readsAfterManualStop,
  \* chunk durations left of the monitor's time.sleep(0.1)
  monitor_sleep,
  \* how the call of record_audio ended: "none" while it has not, "path" or
  \* "None" for the value it returned, "raised" for an exception
  ra_result

audVars == <<ao_manual_stop_event, duration_stop_event, stop_event, ao_pc,
             monitor_pc, timer_pc, offset, recording, ao_result, this_chunk,
             readsAfterManualStop, monitor_sleep, ra_result>>

VARIABLES
  \* record_screen (recorders/recorder.py): position of its main thread, its
  \* arguments stop_event (given or None) and on_process_start (given or None)
  rs_pc, rs_has_stop_event, rs_has_callback,
  \* the flag of the stop_event passed in, and where record_screen was when
  \* its owner set it
  rs_stop_event, rs_stop_set_at,
  \* the encoder process: state, exit code, Popen.returncode ({} for None)
  process, exit_code, returncode,
  \* monitor_stop_event, the watcher thread
  watcher_pc,
  \* SIGTERM delivered to the running encoder; os.kill called on a process
  \* that had exited; invocations of on_process_start; the return value
  sigterm_sent, signalled_after_exit, process_started_calls, rs_result

scrVars == <<rs_pc, rs_has_stop_event, rs_has_callback, rs_stop_event,
             rs_stop_set_at, process, exit_code, returncode, watcher_pc,
             sigterm_sent, signalled_after_exit, process_started_calls,
             rs_result>>

VARIABLES
  \* record_screen_and_audio (screen_audio_recorder.py): its position and its
  \* argument duration
  rsa_pc, duration,
  \* the files at temp_video_path, temp_audio_path and output_file:
  \* "absent", "empty" or "data"
  temp_video_path, temp_audio_path, output_file,
  \* the encoder: screen_process ("none", "running", "exited") and its exit code
  screen_process, screen_exit_code,
  \* record_audio's frame offset and its return value audio_file
  rsa_offset, audio_file,
  \* combine_audio_video was called; the value returned
  combine_called, result,
  \* the capture events in the order they happened
  timeline

coVars == <<rsa_pc, duration, temp_video_path, temp_audio_path, output_file,
            screen_process, screen_exit_code, rsa_offset, audio_file,
            combine_called, result, timeline>>

VARIABLES
  \* combine_audio_video (recorders/utils.py): its position
  cav_pc,
  \* the durations of the files at audio_file and video_file, in tenths of a
  \* second as ffprobe prints them, and the skew in tenths as its caller
  \* measured it
  audio_tenths, video_tenths, skew_tenths,
  \* the completion times taken by the caller (floats)
  screen_complete_time, audio_complete_time,
  \* the argument time_diff: <<>> for None, else <<float>>
  time_diff,
  \* the floats audio_duration, video_duration, beginning_duration and
  \* ending_duration
  audio_duration, video_duration, beginning_duration, ending_duration,
  \* the files at padded_video_path and at output_file: "absent", "empty", "data"
  padded_video_path, cav_output_file,
  \* runs of the padding command and of the mux command
  padding_runs, mux_runs,
  \* the exception caught by the except clause, and the value returned
  cav_error, cav_result,
  \* the exit statuses of the padding and the mux command: {} before the run
  padding_returncode, mux_returncode

mrgVars == <<cav_pc, audio_tenths, video_tenths, skew_tenths, screen_complete_time,
             audio_complete_time, time_diff, audio_duration, video_duration,
             beginning_duration, ending_duration, padded_video_path,
             cav_output_file, padding_runs, mux_runs, cav_error, cav_result,
             padding_returncode, mux_returncode>>

\* everything outside the session object and its workers
VARIABLES
  \* KeyboardShortcutHandler (keyboard_handler.py): the set "current" that
  \* start() creates and both handlers share
  current,
  \* the keys physically held down, as the listener has reported them
  pressed,
  \* invocations of callbacks['toggle'] so far, and the mode of the last one
  toggle_calls, toggle_mode,
  \* the last message given to callbacks['status']
  kb_status,
  \* self.is_running
  kb_is_running

kbVars == <<current, pressed, toggle_calls, toggle_mode, kb_status, kb_is_running>>

engineVars == <<audVars, scrVars, coVars, mrgVars, kbVars>>

vars == <<sessVars, engineVars>>

\* ------------------------------------------------------------------ session
\* started_calls counts the invocations of on_recording_started made through
\* this worker's engine call; fault tells that a device or a file write failed
\* in it.
NoWorker == [pc |-> "none", mode |-> "none", ev |-> None, stop |-> FALSE,
             dur |-> FALSE, proc |-> "none", sres |-> FALSE, res |-> None,
             started_calls |-> 0, fault |-> FALSE]

NoRet == [op |-> "none", path |-> None, mode |-> "none"]

\* RecordingSession.__init__
InitSession ==
  /\ is_recording = FALSE
  /\ recording_path = None
  /\ recording_thread = None
  /\ manual_stop_event = None
  /\ recording_mode = "none"
  /\ recording_actually_started = FALSE
  /\ status = "none"
  /\ events = [e \in EventIds |-> FALSE]
  /\ nStarted = 0
  /\ callerPc = "idle"
  /\ callerArg = "none"
  /\ ret = NoRet
  /\ w = [i \in SessionIds |-> NoWorker]

\* A thread that has ended is at "done", or at "failed" when it ended in its
\* except clause.
Alive(i) == w[i].pc \notin {"none", "done", "failed"}

\* A thread that has ended: its locals are gone; the model keeps the mode and
\* the way the encoder process ended.
Ended(r) == [NoWorker EXCEPT !.pc = "done", !.mode = r.mode, !.proc = r.proc,
                            !.started_calls = r.started_calls,
                            !.fault = r.fault]

\* The caller invokes start(mode).
CallStart(mode) ==
  /\ callerPc = "idle"
  /\ nStarted < MaxSessions
  /\ callerPc' = "start_check"
  /\ callerArg' = mode
  /\ UNCHANGED <<is_recording, recording_path, recording_thread, manual_stop_event,
                 recording_mode, recording_actually_started, status, events,
                 nStarted, ret, w>>
  /\ UNCHANGED engineVars

\* Variant of StartReject that stores the mode before it tests is_recording.
StartReject_StoresMode ==
  /\ callerPc = "start_check"
  /\ is_recording
  /\ recording_mode' = callerArg
  /\ callerPc' = "idle"
  /\ ret' = [op |-> "start_false", path |-> None, mode |-> "none"]
  /\ UNCHANGED <<is_recording, recording_path, recording_thread, manual_stop_event,
                 recording_actually_started, status, events, nStarted, callerArg, w>>
  /\ UNCHANGED engineVars

\* start(): "if self.is_recording: return False".  callerArg keeps the mode
\* that was asked for.
StartReject ==
  /\ callerPc = "start_check"
  /\ is_recording
  /\ callerPc' = "idle"
  /\ ret' = [op |-> "start_false", path |-> None, mode |-> "none"]
  /\ UNCHANGED <<is_recording, recording_path, recording_thread, manual_stop_event,
                 recording_mode, recording_actually_started, status, events,
                 nStarted, callerArg, w>>
  /\ UNCHANGED engineVars

\* Variant of StartAccept without the is_recording guard of line 37.
StartAccept_NoGuard ==
  /\ callerPc = "start_check"
  /\ nStarted' = nStarted + 1
  /\ manual_stop_event' = nStarted + 1
  /\ recording_actually_started' = FALSE
  /\ recording_mode' = callerArg
  /\ callerPc' = "start_spawn"
  /\ UNCHANGED <<is_recording, recording_path, recording_thread, status, events,
                 callerArg, ret, w>>
  /\ UNCHANGED engineVars

\* Variant of StartAccept that keeps an existing stop event instead of
\* allocating one.
StartAccept_ReusesEvent ==
  /\ callerPc = "start_check"
  /\ ~is_recording
  /\ nStarted' = nStarted + 1
  /\ manual_stop_event' = IF manual_stop_event = None THEN nStarted + 1
                                                      ELSE manual_stop_event
  /\ recording_actually_started' = FALSE
  /\ recording_mode' = callerArg
  /\ callerPc' = "start_spawn"
  /\ UNCHANGED <<is_recording, recording_path, recording_thread, status, events,
                 callerArg, ret, w>>
  /\ UNCHANGED engineVars

\* start(): a fresh stop event, the started flag reset, the mode stored.
StartAccept ==
  /\ callerPc = "start_check"
  /\ ~is_recording
  /\ nStarted' = nStarted + 1
  /\ manual_stop_event' = nStarted + 1
  /\ recording_actually_started' = FALSE
  /\ recording_mode' = callerArg
  /\ callerPc' = "start_spawn"
  /\ UNCHANGED <<is_recording, recording_path, recording_thread, status, events,
                 callerArg, ret, w>>
  /\ UNCHANGED engineVars

\* start(): the worker thread is created and started.
StartSpawn ==
  /\ callerPc = "start_spawn"
  /\ recording_thread' = nStarted
  /\ w' = [w EXCEPT ![nStarted] = [NoWorker EXCEPT !.pc = "spawned", !.mode = callerArg]]
  /\ callerPc' = "start_flag"
  /\ UNCHANGED <<is_recording, recording_path, manual_stop_event, recording_mode,
                 recording_actually_started, status, events, nStarted, callerArg, ret>>
  /\ UNCHANGED engineVars

\* Variant of StartFlag that returns only once the worker has entered its
\* engine call.
StartFlag_WaitsForWorker ==
  /\ callerPc = "start_flag"
  /\ w[nStarted].pc \notin {"spawned", "call"}
  /\ is_recording' = TRUE
  /\ ret' = [op |-> "start_true", path |-> None, mode |-> "none"]
  /\ callerPc' = "idle"
  /\ callerArg' = "none"
  /\ UNCHANGED <<recording_path, recording_thread, manual_stop_event, recording_mode,
                 recording_actually_started, status, events, nStarted, w>>
  /\ UNCHANGED engineVars

\* start(): "self.is_recording = True; return True".
StartFlag ==
  /\ callerPc = "start_flag"
  /\ is_recording' = TRUE
  /\ ret' = [op |-> "start_true", path |-> None, mode |-> "none"]
  /\ callerPc' = "idle"
  /\ callerArg' = "none"
  /\ UNCHANGED <<recording_path, recording_thread, manual_stop_event, recording_mode,
                 recording_actually_started, status, events, nStarted, w>>
  /\ UNCHANGED engineVars

\* The caller invokes stop().
CallStop ==
  /\ callerPc = "idle"
  /\ callerPc' = "stop_check"
  /\ UNCHANGED <<is_recording, recording_path, recording_thread, manual_stop_event,
                 recording_mode, recording_actually_started, status, events,
                 nStarted, callerArg, ret, w>>
  /\ UNCHANGED engineVars

\* stop(): "if not self.is_recording: return None, None".
StopIdle ==
  /\ callerPc = "stop_check"
  /\ ~is_recording
  /\ callerPc' = "idle"
  /\ ret' = [op |-> "stop_none", path |-> None, mode |-> "none"]
  /\ UNCHANGED <<is_recording, recording_path, recording_thread, manual_stop_event,
                 recording_mode, recording_actually_started, status, events,
                 nStarted, callerArg, w>>
  /\ UNCHANGED engineVars

\* stop(): the status message, then the stop event is set.
StopSignal ==
  /\ callerPc = "stop_check"
  /\ is_recording
  /\ status' = "stopping"
  /\ events' = IF manual_stop_event # None
                 THEN [events EXCEPT ![manual_stop_event] = TRUE]
                 ELSE events
  /\ callerPc' = "stop_join"
  /\ UNCHANGED <<is_recording, recording_path, recording_thread, manual_stop_event,
                 recording_mode, recording_actually_started, nStarted, callerArg,
                 ret, w>>
  /\ UNCHANGED engineVars

\* stop(): "if thread and thread.is_alive(): thread.join(timeout=5)": there is
\* no thread alive, or the join returns because the thread has ended.
StopJoin ==
  /\ callerPc = "stop_join"
  /\ recording_thread # None => ~Alive(recording_thread)
  /\ callerPc' = "stop_read"
  /\ UNCHANGED <<is_recording, recording_path, recording_thread, manual_stop_event,
                 recording_mode, recording_actually_started, status, events,
                 nStarted, callerArg, ret, w>>
  /\ UNCHANGED engineVars

\* stop(): thread.join(timeout=5) returns after 5 seconds, the thread alive.
StopJoinTimeout ==
  /\ callerPc = "stop_join"
  /\ recording_thread # None
  /\ Alive(recording_thread)
  /\ callerPc' = "stop_read"
  /\ UNCHANGED <<is_recording, recording_path, recording_thread, manual_stop_event,
                 recording_mode, recording_actually_started, status, events,
                 nStarted, callerArg, ret, w>>
  /\ UNCHANGED engineVars

\* stop(): is_recording cleared, path and mode read into locals.
StopRead ==
  /\ callerPc = "stop_read"
  /\ is_recording' = FALSE
  /\ ret' = [op |-> "stop_pending", path |-> recording_path, mode |-> recording_mode]
  /\ callerPc' = "stop_reset"
  /\ UNCHANGED <<recording_path, recording_thread, manual_stop_event, recording_mode,
                 recording_actually_started, status, events, nStarted, callerArg, w>>
  /\ UNCHANGED engineVars

\* stop(): the instance state is reset and the pair returned.
StopReset ==
  /\ callerPc = "stop_reset"
  /\ recording_path' = None
  /\ recording_mode' = "none"
  /\ ret' = [ret EXCEPT !.op = "stop"]
  /\ callerPc' = "idle"
  /\ UNCHANGED <<is_recording, recording_thread, manual_stop_event,
                 recording_actually_started, status, events, nStarted, callerArg, w>>
  /\ UNCHANGED engineVars

\* ------------------------------------------------------------------- worker
\* recording_thread_func: set_status("Preparing ... devices...").
W_Prepare(i) ==
  /\ w[i].pc = "spawned"
  /\ status' = "preparing"
  /\ w' = [w EXCEPT ![i].pc = "call"]
  /\ UNCHANGED <<is_recording, recording_path, recording_thread, manual_stop_event,
                 recording_mode, recording_actually_started, events, nStarted,
                 callerPc, callerArg, ret>>
  /\ UNCHANGED engineVars

\* The call of record_audio_only / record_screen_and_audio.  Its arguments are
\* evaluated in the worker thread: manual_stop_event=self.manual_stop_event
\* reads the session's field at this moment.
W_Call(i) ==
  /\ w[i].pc = "call"
  /\ w' = [w EXCEPT ![i].ev = manual_stop_event,
                    ![i].pc = IF w[i].mode = "audio" THEN "a_open" ELSE "v_launch"]
  /\ UNCHANGED <<is_recording, recording_path, recording_thread, manual_stop_event,
                 recording_mode, recording_actually_started, status, events,
                 nStarted, callerPc, callerArg, ret>>
  /\ UNCHANGED engineVars

\* The call raises (with the definitions in the source: TypeError for the
\* keywords they do not declare).
W_Raise(i) ==
  /\ w[i].pc = "call"
  /\ w' = [w EXCEPT ![i].pc = "except"]
  /\ UNCHANGED <<is_recording, recording_path, recording_thread, manual_stop_event,
                 recording_mode, recording_actually_started, status, events,
                 nStarted, callerPc, callerArg, ret>>
  /\ UNCHANGED engineVars

\* except Exception: set_status("... recording error: ..."); recording_path = None
W_Except(i) ==
  /\ w[i].pc = "except"
  /\ status' = "error"
  /\ recording_path' = None
  /\ w' = [w EXCEPT ![i].pc = "except_flag"]
  /\ UNCHANGED <<is_recording, recording_thread, manual_stop_event, recording_mode,
                 recording_actually_started, events, nStarted, callerPc, callerArg,
                 ret>>
  /\ UNCHANGED engineVars

\* except Exception: self.is_recording = False; the thread ends.
W_ExceptFlag(i) ==
  /\ w[i].pc = "except_flag"
  /\ is_recording' = FALSE
  /\ w' = [w EXCEPT ![i] = [Ended(w[i]) EXCEPT !.pc = "failed"]]
  /\ UNCHANGED <<recording_path, recording_thread, manual_stop_event, recording_mode,
                 recording_actually_started, status, events, nStarted, callerPc,
                 callerArg, ret>>
  /\ UNCHANGED engineVars

\* self.recording_path = <the call's result>; the thread ends.  is_recording
\* is not written on this path.
W_Return(i) ==
  /\ w[i].pc = "ret"
  /\ recording_path' = w[i].res
  /\ w' = [w EXCEPT ![i] = Ended(w[i])]
  /\ UNCHANGED <<is_recording, recording_thread, manual_stop_event, recording_mode,
                 recording_actually_started, status, events, nStarted, callerPc,
                 callerArg, ret>>
  /\ UNCHANGED engineVars

\* ----------------------------------------- audio engine inside the worker
\* record_audio: sd.query_devices / sd.InputStream.  A failure is caught by
\* record_audio_only's except clause: stop_event.set(); return None.
A_Open(i) ==
  /\ w[i].pc = "a_open"
  /\ \/ w' = [w EXCEPT ![i].pc = "a_run"]
     \/ w' = [w EXCEPT ![i].pc = "ret", ![i].stop = TRUE, ![i].res = None,
                       ![i].fault = TRUE]
  /\ UNCHANGED <<is_recording, recording_path, recording_thread, manual_stop_event,
                 recording_mode, recording_actually_started, status, events,
                 nStarted, callerPc, callerArg, ret>>
  /\ UNCHANGED engineVars

\* duration_timer: time.sleep(duration); duration_stop_event.set()
A_Timer(i) ==
  /\ w[i].pc = "a_run"
  /\ ~w[i].dur
  /\ w' = [w EXCEPT ![i].dur = TRUE]
  /\ UNCHANGED <<is_recording, recording_path, recording_thread, manual_stop_event,
                 recording_mode, recording_actually_started, status, events,
                 nStarted, callerPc, callerArg, ret>>
  /\ UNCHANGED engineVars

\* Variant of A_Monitor that sets manual_stop_event instead of only reading it.
A_Monitor_WritesManual(i) ==
  /\ w[i].pc = "a_run"
  /\ ~w[i].stop
  /\ events[w[i].ev] \/ w[i].dur
  /\ w' = [w EXCEPT ![i].stop = TRUE]
  /\ events' = [events EXCEPT ![w[i].ev] = TRUE]
  /\ UNCHANGED <<is_recording, recording_path, recording_thread, manual_stop_event,
                 recording_mode, recording_actually_started, status,
                 nStarted, callerPc, callerArg, ret>>
  /\ UNCHANGED engineVars

\* monitor_events: relays manual_stop_event or duration_stop_event into the
\* loop's own stop_event.
A_Monitor(i) ==
  /\ w[i].pc = "a_run"
  /\ ~w[i].stop
  /\ events[w[i].ev] \/ w[i].dur
  /\ w' = [w EXCEPT ![i].stop = TRUE]
  /\ UNCHANGED <<is_recording, recording_path, recording_thread, manual_stop_event,
                 recording_mode, recording_actually_started, status, events,
                 nStarted, callerPc, callerArg, ret>>
  /\ UNCHANGED engineVars

\* record_audio's loop: "if stop_event and stop_event.is_set(): break".
A_LoopExit(i) ==
  /\ w[i].pc = "a_run"
  /\ w[i].stop
  /\ w' = [w EXCEPT ![i].pc = "a_save"]
  /\ UNCHANGED <<is_recording, recording_path, recording_thread, manual_stop_event,
                 recording_mode, recording_actually_started, status, events,
                 nStarted, callerPc, callerArg, ret>>
  /\ UNCHANGED engineVars

\* record_audio's loop: "while offset < max_frames" ends, the buffer is full.
A_BufferFull(i) ==
  /\ w[i].pc = "a_run"
  /\ w' = [w EXCEPT ![i].pc = "a_save"]
  /\ UNCHANGED <<is_recording, recording_path, recording_thread, manual_stop_event,
                 recording_mode, recording_actually_started, status, events,
                 nStarted, callerPc, callerArg, ret>>
  /\ UNCHANGED engineVars

\* sf.write: the path, or None when writing fails.
A_Save(i) ==
  /\ w[i].pc = "a_save"
  /\ \E r \in {i, None} :
       w' = [w EXCEPT ![i].pc = "ret", ![i].res = r, ![i].fault = (r = None)]
  /\ UNCHANGED <<is_recording, recording_path, recording_thread, manual_stop_event,
                 recording_mode, recording_actually_started, status, events,
                 nStarted, callerPc, callerArg, ret>>
  /\ UNCHANGED engineVars

\* ---------------------------------------- screen engine inside the worker
\* record_screen: subprocess.Popen; a failure to launch is caught at the
\* engine boundary and yields None.
V_Launch(i) ==
  /\ w[i].pc = "v_launch"
  /\ \/ w' = [w EXCEPT ![i].pc = "v_settle", ![i].proc = "running"]
     \/ w' = [w EXCEPT ![i].pc = "v_join", ![i].sres = FALSE]
  /\ UNCHANGED <<is_recording, recording_path, recording_thread, manual_stop_event,
                 recording_mode, recording_actually_started, status, events,
                 nStarted, callerPc, callerArg, ret>>
  /\ UNCHANGED engineVars

\* The encoder exits by itself: the duration limit (code 0) or an error.
V_ProcExit(i) ==
  /\ w[i].pc \in {"v_settle", "v_run"}
  /\ w[i].proc = "running"
  /\ \E c \in {"exit0", "exit1"} : w' = [w EXCEPT ![i].proc = c]
  /\ UNCHANGED <<is_recording, recording_path, recording_thread, manual_stop_event,
                 recording_mode, recording_actually_started, status, events,
                 nStarted, callerPc, callerArg, ret>>
  /\ UNCHANGED engineVars

\* record_screen after time.sleep(0.5): if process.poll() is None then
\* on_process_start(), which is the session's on_recording_started.
V_Settle(i) ==
  /\ w[i].pc = "v_settle"
  /\ recording_actually_started' =
       IF w[i].proc = "running" THEN TRUE ELSE recording_actually_started
  /\ w' = [w EXCEPT ![i].pc = "v_run",
                    ![i].started_calls = IF w[i].proc = "running" THEN @ + 1 ELSE @]
  /\ UNCHANGED <<is_recording, recording_path, recording_thread, manual_stop_event,
                 recording_mode, status, events, nStarted, callerPc, callerArg, ret>>
  /\ UNCHANGED engineVars

\* monitor_stop_event: the stop event is set and the process runs: SIGTERM.
V_Kill(i) ==
  /\ w[i].pc = "v_run"
  /\ w[i].proc = "running"
  /\ events[w[i].ev]
  /\ w' = [w EXCEPT ![i].proc = "sigterm"]
  /\ UNCHANGED <<is_recording, recording_path, recording_thread, manual_stop_event,
                 recording_mode, recording_actually_started, status, events,
                 nStarted, callerPc, callerArg, ret>>
  /\ UNCHANGED engineVars

\* process.wait() returns; return codes 0 and -15 give the output file.
V_Wait(i) ==
  /\ w[i].pc = "v_run"
  /\ w[i].proc # "running"
  /\ w' = [w EXCEPT ![i].pc = "v_join", ![i].sres = (w[i].proc \in {"exit0", "sigterm"})]
  /\ UNCHANGED <<is_recording, recording_path, recording_thread, manual_stop_event,
                 recording_mode, recording_actually_started, status, events,
                 nStarted, callerPc, callerArg, ret>>
  /\ UNCHANGED engineVars

\* The coordinator joins the audio engine and merges: a path when both
\* captures are there and the merge succeeds, None otherwise.
V_Merge(i) ==
  /\ w[i].pc = "v_join"
  /\ \E audioOk \in BOOLEAN, mergeOk \in BOOLEAN :
       w' = [w EXCEPT ![i].pc = "ret",
                      ![i].res = IF w[i].sres /\ audioOk /\ mergeOk THEN i ELSE None]
  /\ UNCHANGED <<is_recording, recording_path, recording_thread, manual_stop_event,
                 recording_mode, recording_actually_started, status, events,
                 nStarted, callerPc, callerArg, ret>>
  /\ UNCHANGED engineVars

\* The steps of the caller thread inside start() and stop().
CallerStep ==
  \/ StartReject
  \/ StartAccept
  \/ StartSpawn
  \/ StartFlag
  \/ StopIdle
  \/ StopSignal
  \/ StopJoin
  \/ StopJoinTimeout
  \/ StopRead
  \/ StopReset

WorkerStep(i) ==
  \/ W_Prepare(i)
  \/ W_Call(i)
  \/ W_Raise(i)
  \/ W_Except(i)
  \/ W_ExceptFlag(i)
  \/ W_Return(i)
  \/ A_Open(i)
  \/ A_Timer(i)
  \/ A_Monitor(i)
  \/ A_LoopExit(i)
  \/ A_BufferFull(i)
  \/ A_Save(i)
  \/ V_Launch(i)
  \/ V_ProcExit(i)
  \/ V_Settle(i)
  \/ V_Kill(i)
  \/ V_Wait(i)
  \/ V_Merge(i)

Next ==
  \/ \E m \in Modes : CallStart(m)
  \/ CallStop
  \/ CallerStep
  \/ \E i \in SessionIds : WorkerStep(i)



\* --------------------------------------------------- record_audio_only
InitAudio ==
  /\ ao_manual_stop_event = FALSE
  /\ duration_stop_event = FALSE
  /\ stop_event = FALSE
  /\ ao_pc = "call"
  /\ monitor_pc = "none"
  /\ timer_pc = "none"
  /\ offset = 0
  /\ recording = << >>
  /\ ao_result = "none"
  /\ this_chunk = 0
  /\ readsAfterManualStop = 0
  /\ monitor_sleep = 0
  /\ ra_result = "none"

Min(a, b) == IF a <= b THEN a ELSE b

\* The owner of manual_stop_event sets it: RecordingSession.stop, or the key
\* listener of the script's main block.
AO_ManualStop ==
  /\ ~ao_manual_stop_event
  /\ ao_manual_stop_event' = TRUE
  /\ UNCHANGED <<duration_stop_event, stop_event, ao_pc, monitor_pc, timer_pc,
                 offset, recording, ao_result, this_chunk, readsAfterManualStop>>
  /\ UNCHANGED ra_result
  /\ UNCHANGED <<monitor_sleep, sessVars, scrVars, coVars, mrgVars, kbVars>>

\* record_audio_only: the timer thread and the monitor thread are started,
\* then record_audio is called with stop_event.
AO_Begin ==
  /\ ao_pc = "call"
  /\ timer_pc' = "sleep"
  /\ monitor_pc' = "poll"
  /\ ao_pc' = "open"
  /\ UNCHANGED <<ao_manual_stop_event, duration_stop_event, stop_event, offset,
                 recording, ao_result, this_chunk, readsAfterManualStop>>
  /\ UNCHANGED ra_result
  /\ UNCHANGED <<monitor_sleep, sessVars, scrVars, coVars, mrgVars, kbVars>>

\* duration_timer: time.sleep(duration); duration_stop_event.set()
AO_Timer ==
  /\ timer_pc = "sleep"
  /\ duration_stop_event' = TRUE
  /\ timer_pc' = "done"
  /\ UNCHANGED <<ao_manual_stop_event, stop_event, ao_pc, monitor_pc, offset,
                 recording, ao_result, this_chunk, readsAfterManualStop>>
  /\ UNCHANGED ra_result
  /\ UNCHANGED <<monitor_sleep, sessVars, scrVars, coVars, mrgVars, kbVars>>

\* Variant of AO_MonitorPoll that relays manual_stop_event only.
AO_MonitorPoll_ManualOnly ==
  /\ monitor_pc = "poll"
  /\ IF stop_event
       THEN monitor_pc' = "done" /\ UNCHANGED stop_event
       ELSE IF ao_manual_stop_event
              THEN stop_event' = TRUE /\ monitor_pc' = "done"
              ELSE monitor_pc' = "sleep" /\ UNCHANGED stop_event
  /\ monitor_sleep' = PollChunks
  /\ UNCHANGED <<ao_manual_stop_event, duration_stop_event, ao_pc, timer_pc,
                 offset, recording, ao_result, this_chunk, readsAfterManualStop>>
  /\ UNCHANGED ra_result
  /\ UNCHANGED <<sessVars, scrVars, coVars, mrgVars, kbVars>>

\* monitor_events, one pass of its loop: ends when stop_event is set; sets
\* stop_event and ends when either source event is set; else time.sleep(0.1).
AO_MonitorPoll ==
  /\ monitor_pc = "poll"
  /\ IF stop_event
       THEN monitor_pc' = "done" /\ UNCHANGED stop_event
       ELSE IF ao_manual_stop_event \/ duration_stop_event
              THEN stop_event' = TRUE /\ monitor_pc' = "done"
              ELSE monitor_pc' = "sleep" /\ UNCHANGED stop_event
  /\ monitor_sleep' = PollChunks
  /\ UNCHANGED <<ao_manual_stop_event, duration_stop_event, ao_pc, timer_pc,
                 offset, recording, ao_result, this_chunk, readsAfterManualStop>>
  /\ UNCHANGED ra_result
  /\ UNCHANGED <<sessVars, scrVars, coVars, mrgVars, kbVars>>

\* monitor_events: time.sleep(0.1) is over.
AO_MonitorWake ==
  /\ monitor_pc = "sleep"
  /\ monitor_pc' = "poll"
  /\ UNCHANGED <<ao_manual_stop_event, duration_stop_event, stop_event, ao_pc,
                 timer_pc, offset, recording, ao_result, this_chunk,
                 readsAfterManualStop>>
  /\ UNCHANGED ra_result
  /\ UNCHANGED <<monitor_sleep, sessVars, scrVars, coVars, mrgVars, kbVars>>

\* record_audio: the input device is queried and the stream opened, outside
\* any try.  When the device is unavailable the exception leaves record_audio
\* and reaches record_audio_only's except clause: stop_event.set(); return
\* None.
RA_Open ==
  /\ ao_pc = "open"
  /\ \/ ao_pc' = "loop" /\ UNCHANGED <<stop_event, ao_result, ra_result>>
     \/ /\ ra_result' = "raised"
        /\ ao_pc' = "returned"
        /\ stop_event' = TRUE
        /\ ao_result' = "None"
  /\ UNCHANGED <<ao_manual_stop_event, duration_stop_event, monitor_pc, timer_pc,
                 offset, recording, this_chunk, readsAfterManualStop>>
  /\ UNCHANGED <<monitor_sleep, sessVars, scrVars, coVars, mrgVars, kbVars>>

\* Variant of RA_Read that stores a chunk only when it ends before the cap.
RA_Read_DropsLastChunk ==
  /\ ao_pc = "loop"
  /\ offset < max_frames
  /\ LET n == Min(chunk_size, max_frames - offset) IN
       /\ this_chunk' = n
       /\ recording' = IF offset + n < max_frames
                         THEN recording \o [k \in 1..n |-> offset + k]
                         ELSE recording
       /\ offset' = offset + n
  /\ readsAfterManualStop' =
       IF ao_manual_stop_event THEN readsAfterManualStop + 1 ELSE readsAfterManualStop
  /\ monitor_sleep' = IF monitor_sleep > 0 THEN monitor_sleep - 1 ELSE 0
  /\ ao_pc' = "check"
  /\ UNCHANGED <<ao_manual_stop_event, duration_stop_event, stop_event, monitor_pc,
                 timer_pc, ao_result>>
  /\ UNCHANGED ra_result
  /\ UNCHANGED <<sessVars, scrVars, coVars, mrgVars, kbVars>>

\* Variant of RA_Read that always requests a whole chunk of chunk_size frames.
RA_Read_WholeChunk ==
  /\ ao_pc = "loop"
  /\ offset < max_frames
  /\ LET n == chunk_size IN
       /\ this_chunk' = n
       /\ recording' = IF offset + n <= max_frames
                         THEN recording \o [k \in 1..n |-> offset + k]
                         ELSE recording
       /\ offset' = offset + n
  /\ readsAfterManualStop' =
       IF ao_manual_stop_event THEN readsAfterManualStop + 1 ELSE readsAfterManualStop
  /\ monitor_sleep' = IF monitor_sleep > 0 THEN monitor_sleep - 1 ELSE 0
  /\ ao_pc' = "check"
  /\ UNCHANGED <<ao_manual_stop_event, duration_stop_event, stop_event, monitor_pc,
                 timer_pc, ao_result>>
  /\ UNCHANGED ra_result
  /\ UNCHANGED <<sessVars, scrVars, coVars, mrgVars, kbVars>>

\* record_audio: "while offset < max_frames", then one chunk is read and
\* stored: this_chunk = min(chunk_size, remaining); offset += len(chunk).
\* stream.read blocks for one chunk duration, which the monitor's sleep
\* counts down.
RA_Read ==
  /\ ao_pc = "loop"
  /\ offset < max_frames
  /\ LET n == Min(chunk_size, max_frames - offset) IN
       /\ this_chunk' = n
       /\ recording' = IF offset + n <= max_frames
                         THEN recording \o [k \in 1..n |-> offset + k]
                         ELSE recording
       /\ offset' = offset + n
  /\ readsAfterManualStop' =
       IF ao_manual_stop_event THEN readsAfterManualStop + 1 ELSE readsAfterManualStop
  /\ monitor_sleep' = IF monitor_sleep > 0 THEN monitor_sleep - 1 ELSE 0
  /\ ao_pc' = "check"
  /\ UNCHANGED <<ao_manual_stop_event, duration_stop_event, stop_event, monitor_pc,
                 timer_pc, ao_result>>
  /\ UNCHANGED ra_result
  /\ UNCHANGED <<sessVars, scrVars, coVars, mrgVars, kbVars>>

\* record_audio: "if stop_event and stop_event.is_set(): break".
RA_Check ==
  /\ ao_pc = "check"
  /\ ao_pc' = IF stop_event THEN "save" ELSE "loop"
  /\ UNCHANGED <<ao_manual_stop_event, duration_stop_event, stop_event, monitor_pc,
                 timer_pc, offset, recording, ao_result, this_chunk,
                 readsAfterManualStop>>
  /\ UNCHANGED ra_result
  /\ UNCHANGED <<monitor_sleep, sessVars, scrVars, coVars, mrgVars, kbVars>>

\* record_audio: the while condition fails, the buffer is full.
RA_Full ==
  /\ ao_pc = "loop"
  /\ offset >= max_frames
  /\ ao_pc' = "save"
  /\ UNCHANGED <<ao_manual_stop_event, duration_stop_event, stop_event, monitor_pc,
                 timer_pc, offset, recording, ao_result, this_chunk,
                 readsAfterManualStop>>
  /\ UNCHANGED ra_result
  /\ UNCHANGED <<monitor_sleep, sessVars, scrVars, coVars, mrgVars, kbVars>>

\* record_audio: recording[:offset] is written; the path, or None when the
\* write fails.  record_audio_only returns that value.
RA_Save ==
  /\ ao_pc = "save"
  /\ recording' = SubSeq(recording, 1, offset)
  /\ \E r \in {"path", "None"} : ra_result' = r /\ ao_result' = r
  /\ ao_pc' = "returned"
  /\ UNCHANGED <<ao_manual_stop_event, duration_stop_event, stop_event, monitor_pc,
                 timer_pc, offset, this_chunk, readsAfterManualStop>>
  /\ UNCHANGED <<monitor_sleep, sessVars, scrVars, coVars, mrgVars, kbVars>>

NextAudio ==
  \/ AO_ManualStop
  \/ AO_Begin
  \/ AO_Timer
  \/ AO_MonitorPoll
  \/ AO_MonitorWake
  \/ RA_Open
  \/ RA_Read
  \/ RA_Check
  \/ RA_Full
  \/ RA_Save


\* The same engine with the durations of its blocking calls: a chunk read
\* takes one chunk duration, the monitor's sleep takes PollChunks of them, and
\* the monitor's own steps take no time: they run before the next chunk read
\* completes, and a sleep ends only when its time is over.
MonitorDue == monitor_pc = "poll" \/ (monitor_pc = "sleep" /\ monitor_sleep = 0)

T_Read == ~MonitorDue /\ RA_Read

T_MonitorWake == monitor_sleep = 0 /\ AO_MonitorWake

NextAudioTimed ==
  \/ AO_ManualStop
  \/ AO_Begin
  \/ AO_Timer
  \/ AO_MonitorPoll
  \/ T_MonitorWake
  \/ RA_Open
  \/ T_Read
  \/ RA_Check
  \/ RA_Full
  \/ RA_Save

\* -------------------------------------------------------- record_screen
InitScreen ==
  /\ rs_pc = "call"
  /\ rs_has_stop_event = FALSE
  /\ rs_has_callback = FALSE
  /\ rs_stop_event = FALSE
  /\ rs_stop_set_at = "never"
  /\ process = "none"
  /\ exit_code = 0
  /\ returncode = {}
  /\ watcher_pc = "none"
  /\ sigterm_sent = FALSE
  /\ signalled_after_exit = FALSE
  /\ process_started_calls = 0
  /\ rs_result = "none"

\* Exit codes of the encoder: 0 at the duration limit, 1 or 255 on an error,
\* -15 when SIGTERM ends it.
NaturalExitCodes == {0, 1, 255}
SigtermCode == 0 - 15

\* record_screen is called, with or without stop_event and on_process_start.
RS_Call(hasStop, hasCallback) ==
  /\ rs_pc = "call"
  /\ rs_has_stop_event' = hasStop
  /\ rs_has_callback' = hasCallback
  /\ rs_pc' = "launch"
  /\ UNCHANGED <<rs_stop_event, rs_stop_set_at, process, exit_code, returncode,
                 watcher_pc, sigterm_sent, signalled_after_exit,
                 process_started_calls, rs_result>>
  /\ UNCHANGED <<sessVars, audVars, coVars, mrgVars, kbVars>>

\* The owner of stop_event (the coordinator, for RecordingSession.stop) sets it.
RS_StopEventSet ==
  /\ rs_pc # "call"
  /\ rs_has_stop_event
  /\ ~rs_stop_event
  /\ rs_stop_event' = TRUE
  /\ rs_stop_set_at' = rs_pc
  /\ UNCHANGED <<rs_pc, rs_has_stop_event, rs_has_callback, process, exit_code,
                 returncode, watcher_pc, sigterm_sent, signalled_after_exit,
                 process_started_calls, rs_result>>
  /\ UNCHANGED <<sessVars, audVars, coVars, mrgVars, kbVars>>

\* subprocess.Popen(cmd): the process runs, or Popen raises and the except
\* clause returns None.
RS_Launch ==
  /\ rs_pc = "launch"
  /\ \/ process' = "running" /\ rs_pc' = "settle" /\ UNCHANGED rs_result
     \/ rs_result' = "None" /\ rs_pc' = "returned" /\ UNCHANGED process
  /\ UNCHANGED <<rs_has_stop_event, rs_has_callback, rs_stop_event, rs_stop_set_at,
                 exit_code, returncode, watcher_pc, sigterm_sent,
                 signalled_after_exit, process_started_calls>>
  /\ UNCHANGED <<sessVars, audVars, coVars, mrgVars, kbVars>>

\* The encoder exits by itself: "-t duration" is reached, or it fails.
P_Exit ==
  /\ process = "running"
  /\ \E c \in NaturalExitCodes : exit_code' = c
  /\ process' = "exited"
  /\ UNCHANGED <<rs_pc, rs_has_stop_event, rs_has_callback, rs_stop_event,
                 rs_stop_set_at, returncode, watcher_pc, sigterm_sent,
                 signalled_after_exit, process_started_calls, rs_result>>
  /\ UNCHANGED <<sessVars, audVars, coVars, mrgVars, kbVars>>

\* The encoder ends on the SIGTERM it received.
P_Terminated ==
  /\ process = "running"
  /\ sigterm_sent
  /\ exit_code' = SigtermCode
  /\ process' = "exited"
  /\ UNCHANGED <<rs_pc, rs_has_stop_event, rs_has_callback, rs_stop_event,
                 rs_stop_set_at, returncode, watcher_pc, sigterm_sent,
                 signalled_after_exit, process_started_calls, rs_result>>
  /\ UNCHANGED <<sessVars, audVars, coVars, mrgVars, kbVars>>

\* Popen.poll(): None (the empty set) while the process runs; else its exit
\* code, which is then stored in returncode.
Poll == IF process = "running" THEN {} ELSE {exit_code}

\* time.sleep(0.5) is over.
RS_Settle ==
  /\ rs_pc = "settle"
  /\ rs_pc' = "poll"
  /\ UNCHANGED <<rs_has_stop_event, rs_has_callback, rs_stop_event, rs_stop_set_at,
                 process, exit_code, returncode, watcher_pc, sigterm_sent,
                 signalled_after_exit, process_started_calls, rs_result>>
  /\ UNCHANGED <<sessVars, audVars, coVars, mrgVars, kbVars>>

\* "if process.poll() is None: if on_process_start: on_process_start()".
RS_PollStarted ==
  /\ rs_pc = "poll"
  /\ returncode' = Poll
  /\ process_started_calls' =
       IF Poll = {} /\ rs_has_callback THEN process_started_calls + 1
                                           ELSE process_started_calls
  /\ rs_pc' = "watch"
  /\ UNCHANGED <<rs_has_stop_event, rs_has_callback, rs_stop_event, rs_stop_set_at,
                 process, exit_code, watcher_pc, sigterm_sent, signalled_after_exit,
                 rs_result>>
  /\ UNCHANGED <<sessVars, audVars, coVars, mrgVars, kbVars>>

\* "if stop_event:" the watcher thread monitor_stop_event is started.
RS_StartWatcher ==
  /\ rs_pc = "watch"
  /\ watcher_pc' = IF rs_has_stop_event THEN "wait" ELSE watcher_pc
  /\ rs_pc' = "wait"
  /\ UNCHANGED <<rs_has_stop_event, rs_has_callback, rs_stop_event, rs_stop_set_at,
                 process, exit_code, returncode, sigterm_sent, signalled_after_exit,
                 process_started_calls, rs_result>>
  /\ UNCHANGED <<sessVars, audVars, coVars, mrgVars, kbVars>>

\* monitor_stop_event: stop_event.wait() returns.
W_Wake ==
  /\ watcher_pc = "wait"
  /\ rs_stop_event
  /\ watcher_pc' = "poll"
  /\ UNCHANGED <<rs_pc, rs_has_stop_event, rs_has_callback, rs_stop_event,
                 rs_stop_set_at, process, exit_code, returncode, sigterm_sent,
                 signalled_after_exit, process_started_calls, rs_result>>
  /\ UNCHANGED <<sessVars, audVars, coVars, mrgVars, kbVars>>

\* monitor_stop_event: "if process.poll() is None:".
W_Poll ==
  /\ watcher_pc = "poll"
  /\ returncode' = Poll
  /\ watcher_pc' = IF Poll = {} THEN "kill" ELSE "done"
  /\ UNCHANGED <<rs_pc, rs_has_stop_event, rs_has_callback, rs_stop_event,
                 rs_stop_set_at, process, exit_code, sigterm_sent,
                 signalled_after_exit, process_started_calls, rs_result>>
  /\ UNCHANGED <<sessVars, audVars, coVars, mrgVars, kbVars>>

\* monitor_stop_event without its os.kill: the watcher ends, nothing is sent.
W_Kill_NothingSent ==
  /\ watcher_pc = "kill"
  /\ watcher_pc' = "done"
  /\ UNCHANGED <<rs_pc, rs_has_stop_event, rs_has_callback, rs_stop_event,
                 rs_stop_set_at, process, exit_code, returncode, sigterm_sent,
                 signalled_after_exit, process_started_calls, rs_result>>
  /\ UNCHANGED <<sessVars, audVars, coVars, mrgVars, kbVars>>

\* monitor_stop_event: os.kill(process.pid, signal.SIGTERM).
W_Kill ==
  /\ watcher_pc = "kill"
  /\ IF process = "running"
       THEN sigterm_sent' = TRUE /\ UNCHANGED signalled_after_exit
       ELSE signalled_after_exit' = TRUE /\ UNCHANGED sigterm_sent
  /\ watcher_pc' = "done"
  /\ UNCHANGED <<rs_pc, rs_has_stop_event, rs_has_callback, rs_stop_event,
                 rs_stop_set_at, process, exit_code, returncode,
                 process_started_calls, rs_result>>
  /\ UNCHANGED <<sessVars, audVars, coVars, mrgVars, kbVars>>

\* process.wait() returns once the process has exited.
RS_Wait ==
  /\ rs_pc = "wait"
  /\ process = "exited"
  /\ returncode' = {exit_code}
  /\ rs_pc' = "classify"
  /\ UNCHANGED <<rs_has_stop_event, rs_has_callback, rs_stop_event, rs_stop_set_at,
                 process, exit_code, watcher_pc, sigterm_sent, signalled_after_exit,
                 process_started_calls, rs_result>>
  /\ UNCHANGED <<sessVars, audVars, coVars, mrgVars, kbVars>>

\* Variant of RS_Classify that takes only exit code 0 for a success.
RS_Classify_ZeroOnly ==
  /\ rs_pc = "classify"
  /\ rs_result' = IF returncode # {0} THEN "None" ELSE "path"
  /\ rs_pc' = "returned"
  /\ UNCHANGED <<rs_has_stop_event, rs_has_callback, rs_stop_event, rs_stop_set_at,
                 process, exit_code, returncode, watcher_pc, sigterm_sent,
                 signalled_after_exit, process_started_calls>>
  /\ UNCHANGED <<sessVars, audVars, coVars, mrgVars, kbVars>>

\* "if process.returncode != 0 and process.returncode != -15: return None",
\* else "return output_file".  Popen was given no stderr pipe, so
\* process.stderr is None and the branch reads nothing.
RS_Classify ==
  /\ rs_pc = "classify"
  /\ rs_result' = IF returncode # {0} /\ returncode # {SigtermCode} THEN "None" ELSE "path"
  /\ rs_pc' = "returned"
  /\ UNCHANGED <<rs_has_stop_event, rs_has_callback, rs_stop_event, rs_stop_set_at,
                 process, exit_code, returncode, watcher_pc, sigterm_sent,
                 signalled_after_exit, process_started_calls>>
  /\ UNCHANGED <<sessVars, audVars, coVars, mrgVars, kbVars>>

RS_Main ==
  \/ RS_Launch
  \/ RS_Settle
  \/ RS_PollStarted
  \/ RS_StartWatcher
  \/ RS_Wait
  \/ RS_Classify

Watcher ==
  \/ W_Wake
  \/ W_Poll
  \/ W_Kill

NextScreen ==
  \/ \E hasStop \in BOOLEAN, hasCallback \in BOOLEAN : RS_Call(hasStop, hasCallback)
  \/ RS_StopEventSet
  \/ P_Exit
  \/ P_Terminated
  \/ RS_Main
  \/ Watcher

\* ------------------------------------------------ record_screen_and_audio
InitCoordinator ==
  /\ rsa_pc = "call"
  /\ duration = 1
  /\ temp_video_path = "absent"
  /\ temp_audio_path = "absent"
  /\ output_file = "absent"
  /\ screen_process = "none"
  /\ screen_exit_code = 0
  /\ rsa_offset = 0
  /\ audio_file = "unset"
  /\ combine_called = FALSE
  /\ result = "unset"
  /\ timeline = <<>>

\* record_screen_and_audio(output_file, duration) is called.
RSA_Call(d) ==
  /\ rsa_pc = "call"
  /\ duration' = d
  /\ rsa_pc' = "temp_files"
  /\ UNCHANGED <<temp_video_path, temp_audio_path, output_file, screen_process,
                 screen_exit_code, rsa_offset, audio_file, combine_called,
                 result, timeline>>
  /\ UNCHANGED <<sessVars, audVars, scrVars, mrgVars, kbVars>>

\* The two NamedTemporaryFile(delete=False) blocks create both files, empty.
RSA_TempFiles ==
  /\ rsa_pc = "temp_files"
  /\ temp_video_path' = "empty"
  /\ temp_audio_path' = "empty"
  /\ rsa_pc' = "popen"
  /\ UNCHANGED <<duration, output_file, screen_process, screen_exit_code,
                 rsa_offset, audio_file, combine_called, result, timeline>>
  /\ UNCHANGED <<sessVars, audVars, scrVars, mrgVars, kbVars>>

\* "screen_process = subprocess.Popen(screen_cmd, ...)": the encoder starts,
\* or Popen raises and control is in the except clause.
RSA_Popen ==
  /\ rsa_pc = "popen"
  /\ \/ /\ screen_process' = "running"
        /\ timeline' = Append(timeline, "video_starts")
        /\ rsa_pc' = "record_audio"
     \/ /\ rsa_pc' = "except"
        /\ UNCHANGED <<screen_process, timeline>>
  /\ UNCHANGED <<duration, temp_video_path, temp_audio_path, output_file,
                 screen_exit_code, rsa_offset, audio_file, combine_called, result>>
  /\ UNCHANGED <<sessVars, audVars, scrVars, mrgVars, kbVars>>

\* The encoder exits: with 0 after "-t duration", the video written, or
\* with 1 on an error, the file left as it was.
ScreenProcessExit(code) ==
  /\ screen_process = "running"
  /\ screen_process' = "exited"
  /\ screen_exit_code' = code
  /\ temp_video_path' = IF code = 0 /\ temp_video_path # "absent"
                          THEN "data" ELSE temp_video_path
  /\ timeline' = Append(timeline, "video_ends")
  /\ UNCHANGED <<rsa_pc, duration, temp_audio_path, output_file, rsa_offset,
                 audio_file, combine_called, result>>
  /\ UNCHANGED <<sessVars, audVars, scrVars, mrgVars, kbVars>>

\* record_audio(temp_audio_path, duration): frames = int(duration * fs); the
\* device is queried and the input stream started, or either raises and the
\* exception reaches record_screen_and_audio's except clause.
RSA_AudioOpen ==
  /\ rsa_pc = "record_audio"
  /\ \/ /\ rsa_offset' = 0
        /\ timeline' = Append(timeline, "audio_starts")
        /\ rsa_pc' = "audio_loop"
     \/ /\ rsa_pc' = "except"
        /\ UNCHANGED <<rsa_offset, timeline>>
  /\ UNCHANGED <<duration, temp_video_path, temp_audio_path, output_file,
                 screen_process, screen_exit_code, audio_file, combine_called,
                 result>>
  /\ UNCHANGED <<sessVars, audVars, scrVars, mrgVars, kbVars>>

frames == duration * fs

\* record_audio: "while offset < frames", one chunk is read, and the clock
\* has not reached duration.
RSA_AudioRead ==
  /\ rsa_pc = "audio_loop"
  /\ rsa_offset < frames
  /\ rsa_offset' = rsa_offset + Min(chunk_size, frames - rsa_offset)
  /\ UNCHANGED <<rsa_pc, duration, temp_video_path, temp_audio_path, output_file,
                 screen_process, screen_exit_code, audio_file, combine_called,
                 result, timeline>>
  /\ UNCHANGED <<sessVars, audVars, scrVars, mrgVars, kbVars>>

\* record_audio: "while offset < frames" ends; stream.stop().
RSA_AudioFull ==
  /\ rsa_pc = "audio_loop"
  /\ rsa_offset >= frames
  /\ timeline' = Append(timeline, "audio_ends")
  /\ rsa_pc' = "audio_save"
  /\ UNCHANGED <<duration, temp_video_path, temp_audio_path, output_file,
                 screen_process, screen_exit_code, rsa_offset, audio_file,
                 combine_called, result>>
  /\ UNCHANGED <<sessVars, audVars, scrVars, mrgVars, kbVars>>

\* record_audio: after a read, "if elapsed >= duration: break"; stream.stop().
RSA_AudioElapsed ==
  /\ rsa_pc = "audio_loop"
  /\ 0 < rsa_offset
  /\ rsa_offset < frames
  /\ timeline' = Append(timeline, "audio_ends")
  /\ rsa_pc' = "audio_save"
  /\ UNCHANGED <<duration, temp_video_path, temp_audio_path, output_file,
                 screen_process, screen_exit_code, rsa_offset, audio_file,
                 combine_called, result>>
  /\ UNCHANGED <<sessVars, audVars, scrVars, mrgVars, kbVars>>

\* record_audio: sf.write succeeds and output_file is returned, or it raises
\* and None is returned.
RSA_AudioSave ==
  /\ rsa_pc = "audio_save"
  /\ \/ temp_audio_path' = "data" /\ audio_file' = "path"
     \/ audio_file' = "None" /\ UNCHANGED temp_audio_path
  /\ rsa_pc' = "wait"
  /\ UNCHANGED <<duration, temp_video_path, output_file, screen_process,
                 screen_exit_code, rsa_offset, combine_called, result, timeline>>
  /\ UNCHANGED <<sessVars, audVars, scrVars, mrgVars, kbVars>>

\* "screen_process.wait()" returns.
RSA_Wait ==
  /\ rsa_pc = "wait"
  /\ screen_process = "exited"
  /\ rsa_pc' = "check"
  /\ UNCHANGED <<duration, temp_video_path, temp_audio_path, output_file,
                 screen_process, screen_exit_code, rsa_offset, audio_file,
                 combine_called, result, timeline>>
  /\ UNCHANGED <<sessVars, audVars, scrVars, mrgVars, kbVars>>

\* "if not os.path.exists(temp_video_path) or not audio_file: return None".
RSA_Check ==
  /\ rsa_pc = "check"
  /\ IF temp_video_path = "absent" \/ audio_file # "path"
       THEN result' = "None" /\ rsa_pc' = "returned"
       ELSE rsa_pc' = "combine" /\ UNCHANGED result
  /\ UNCHANGED <<duration, temp_video_path, temp_audio_path, output_file,
                 screen_process, screen_exit_code, rsa_offset, audio_file,
                 combine_called, timeline>>
  /\ UNCHANGED <<sessVars, audVars, scrVars, mrgVars, kbVars>>

\* "result = combine_audio_video(temp_video_path, audio_file, output_file)":
\* ffmpeg writes output_file, or it fails (as it does on an input without
\* data) and the except clause of combine_audio_video returns None.
RSA_Combine ==
  /\ rsa_pc = "combine"
  /\ combine_called' = TRUE
  /\ \/ /\ temp_video_path = "data"
        /\ temp_audio_path = "data"
        /\ result' = "path"
        /\ output_file' = "data"
     \/ /\ result' = "None"
        /\ UNCHANGED output_file
  /\ rsa_pc' = "cleanup"
  /\ UNCHANGED <<duration, temp_video_path, temp_audio_path, screen_process,
                 screen_exit_code, rsa_offset, audio_file, timeline>>
  /\ UNCHANGED <<sessVars, audVars, scrVars, mrgVars, kbVars>>

\* os.remove(temp_video_path); os.remove(temp_audio_path); "return result".
RSA_Cleanup ==
  /\ rsa_pc = "cleanup"
  /\ temp_video_path' = "absent"
  /\ temp_audio_path' = "absent"
  /\ rsa_pc' = "returned"
  /\ UNCHANGED <<duration, output_file, screen_process, screen_exit_code,
                 rsa_offset, audio_file, combine_called, result, timeline>>
  /\ UNCHANGED <<sessVars, audVars, scrVars, mrgVars, kbVars>>

\* "except Exception": both temporary files are removed, None is returned.
RSA_Except ==
  /\ rsa_pc = "except"
  /\ temp_video_path' = "absent"
  /\ temp_audio_path' = "absent"
  /\ result' = "None"
  /\ rsa_pc' = "returned"
  /\ UNCHANGED <<duration, output_file, screen_process, screen_exit_code,
                 rsa_offset, audio_file, combine_called, timeline>>
  /\ UNCHANGED <<sessVars, audVars, scrVars, mrgVars, kbVars>>

NextCoordinator ==
  \/ \E d \in 1..MaxDuration : RSA_Call(d)
  \/ RSA_TempFiles
  \/ RSA_Popen
  \/ \E code \in NaturalExitCodes : ScreenProcessExit(code)
  \/ RSA_AudioOpen
  \/ RSA_AudioRead
  \/ RSA_AudioFull
  \/ RSA_AudioElapsed
  \/ RSA_AudioSave
  \/ RSA_Wait
  \/ RSA_Check
  \/ RSA_Combine
  \/ RSA_Cleanup
  \/ RSA_Except

\* ---------------------------------------------------- combine_audio_video
InitMerger ==
  /\ cav_pc = "idle"
  /\ audio_tenths = 0
  /\ video_tenths = 0
  /\ skew_tenths = 0
  /\ screen_complete_time = 0
  /\ audio_complete_time = 0
  /\ time_diff = <<>>
  /\ audio_duration = 0
  /\ video_duration = 0
  /\ beginning_duration = 0
  /\ ending_duration = 0
  /\ padded_video_path = "absent"
  /\ cav_output_file = "absent"
  /\ padding_runs = 0
  /\ mux_runs = 0
  /\ cav_error = "none"
  /\ cav_result = "unset"
  /\ padding_returncode = {}
  /\ mux_returncode = {}

RECURSIVE Pow2(_)
Pow2(n) == IF n = 0 THEN 1 ELSE 2 * Pow2(n - 1)

\* float("<tenths / 10>"): the binary fraction with FractionBits digits that
\* is nearest to the decimal number, as its numerator over 2^FractionBits.
Float(tenths) == (2 * tenths * Pow2(FractionBits) + 10) \div 20

\* time.time() at a moment given in tenths of a second.
Clock(tenths) == Float(tenths)

\* Variant of Skew that hands over the distance in time, without its sign.
Skew_Unsigned(audioCompletedAt, screenCompletedAt) ==
  IF audioCompletedAt >= screenCompletedAt
    THEN audioCompletedAt - screenCompletedAt
    ELSE screenCompletedAt - audioCompletedAt

\* The coordinator's skew: audio_complete_time - screen_complete_time.
Skew(audioCompletedAt, screenCompletedAt) == audioCompletedAt - screenCompletedAt

\* The coordinator notes both completion times, computes the skew and calls
\* combine_audio_video(video_file, audio_file, output_file, time_diff=skew).
CAV_Handoff(a, v, screenAt, audioAt) ==
  /\ cav_pc = "idle"
  /\ audio_tenths' = a
  /\ video_tenths' = v
  /\ skew_tenths' = audioAt - screenAt
  /\ screen_complete_time' = Clock(screenAt)
  /\ audio_complete_time' = Clock(audioAt)
  /\ time_diff' = <<Skew(Clock(audioAt), Clock(screenAt))>>
  /\ cav_pc' = "probe_audio"
  /\ UNCHANGED <<audio_duration, video_duration, beginning_duration,
                 ending_duration, padded_video_path, cav_output_file,
                 padding_runs, mux_runs, cav_error, cav_result>>
  /\ UNCHANGED <<padding_returncode, mux_returncode>>
  /\ UNCHANGED <<sessVars, audVars, scrVars, coVars, kbVars>>

\* combine_audio_video(video_file, audio_file, output_file): time_diff keeps
\* its default, None.
CAV_CallDefault(a, v) ==
  /\ cav_pc = "idle"
  /\ audio_tenths' = a
  /\ video_tenths' = v
  /\ time_diff' = <<>>
  /\ cav_pc' = "probe_audio"
  /\ UNCHANGED <<skew_tenths, screen_complete_time, audio_complete_time,
                 audio_duration, video_duration, beginning_duration,
                 ending_duration, padded_video_path, cav_output_file,
                 padding_runs, mux_runs, cav_error, cav_result>>
  /\ UNCHANGED <<padding_returncode, mux_returncode>>
  /\ UNCHANGED <<sessVars, audVars, scrVars, coVars, kbVars>>

\* ffprobe on audio_file; float() of its output.  A failing ffprobe raises.
CAV_ProbeAudio ==
  /\ cav_pc = "probe_audio"
  /\ \/ /\ audio_duration' = Float(audio_tenths)
        /\ cav_pc' = "probe_video"
        /\ UNCHANGED cav_error
     \/ /\ cav_error' = "other"
        /\ cav_pc' = "except"
        /\ UNCHANGED audio_duration
  /\ UNCHANGED <<audio_tenths, video_tenths, skew_tenths, screen_complete_time,
                 audio_complete_time, time_diff, video_duration,
                 beginning_duration, ending_duration, padded_video_path,
                 cav_output_file, padding_runs, mux_runs, cav_result>>
  /\ UNCHANGED <<padding_returncode, mux_returncode>>
  /\ UNCHANGED <<sessVars, audVars, scrVars, coVars, kbVars>>

\* ffprobe on video_file; float() of its output.  A failing ffprobe raises.
CAV_ProbeVideo ==
  /\ cav_pc = "probe_video"
  /\ \/ /\ video_duration' = Float(video_tenths)
        /\ cav_pc' = "compute"
        /\ UNCHANGED cav_error
     \/ /\ cav_error' = "other"
        /\ cav_pc' = "except"
        /\ UNCHANGED video_duration
  /\ UNCHANGED <<audio_tenths, video_tenths, skew_tenths, screen_complete_time,
                 audio_complete_time, time_diff, audio_duration,
                 beginning_duration, ending_duration, padded_video_path,
                 cav_output_file, padding_runs, mux_runs, cav_result>>
  /\ UNCHANGED <<padding_returncode, mux_returncode>>
  /\ UNCHANGED <<sessVars, audVars, scrVars, coVars, kbVars>>

\* Variant of CAV_Compute that forgets the skew in the beginning padding.
CAV_Compute_NoSkew ==
  /\ cav_pc = "compute"
  /\ time_diff # <<>>
  /\ beginning_duration' = audio_duration - video_duration
  /\ ending_duration' = time_diff[1]
  /\ cav_pc' = "validate"
  /\ UNCHANGED cav_error
  /\ UNCHANGED <<audio_tenths, video_tenths, skew_tenths, screen_complete_time,
                 audio_complete_time, time_diff, audio_duration,
                 video_duration, padded_video_path, cav_output_file,
                 padding_runs, mux_runs, cav_result>>
  /\ UNCHANGED <<padding_returncode, mux_returncode>>
  /\ UNCHANGED <<sessVars, audVars, scrVars, coVars, kbVars>>

\* beginning_duration = audio_duration - video_duration - time_diff;
\* ending_duration = time_diff.  With time_diff None the subtraction raises
\* TypeError.
CAV_Compute ==
  /\ cav_pc = "compute"
  /\ IF time_diff = <<>>
       THEN /\ cav_error' = "type"
            /\ cav_pc' = "except"
            /\ UNCHANGED <<beginning_duration, ending_duration>>
       ELSE /\ beginning_duration' = audio_duration - video_duration - time_diff[1]
            /\ ending_duration' = time_diff[1]
            /\ cav_pc' = "validate"
            /\ UNCHANGED cav_error
  /\ UNCHANGED <<audio_tenths, video_tenths, skew_tenths, screen_complete_time,
                 audio_complete_time, time_diff, audio_duration,
                 video_duration, padded_video_path, cav_output_file,
                 padding_runs, mux_runs, cav_result>>
  /\ UNCHANGED <<padding_returncode, mux_returncode>>
  /\ UNCHANGED <<sessVars, audVars, scrVars, coVars, kbVars>>

\* Variant of CAV_Validate that lets a negative ending padding through.
CAV_Validate_BeginningOnly ==
  /\ cav_pc = "validate"
  /\ IF beginning_duration < 0
       THEN cav_error' = "timing" /\ cav_pc' = "except"
       ELSE cav_pc' = "video_info" /\ UNCHANGED cav_error
  /\ UNCHANGED <<audio_tenths, video_tenths, skew_tenths, screen_complete_time,
                 audio_complete_time, time_diff, audio_duration,
                 video_duration, beginning_duration, ending_duration,
                 padded_video_path, cav_output_file, padding_runs, mux_runs,
                 cav_result>>
  /\ UNCHANGED <<padding_returncode, mux_returncode>>
  /\ UNCHANGED <<sessVars, audVars, scrVars, coVars, kbVars>>

\* "if beginning_duration < 0 or ending_duration < 0: raise ValueError".
CAV_Validate ==
  /\ cav_pc = "validate"
  /\ IF beginning_duration < 0 \/ ending_duration < 0
       THEN cav_error' = "timing" /\ cav_pc' = "except"
       ELSE cav_pc' = "video_info" /\ UNCHANGED cav_error
  /\ UNCHANGED <<audio_tenths, video_tenths, skew_tenths, screen_complete_time,
                 audio_complete_time, time_diff, audio_duration,
                 video_duration, beginning_duration, ending_duration,
                 padded_video_path, cav_output_file, padding_runs, mux_runs,
                 cav_result>>
  /\ UNCHANGED <<padding_returncode, mux_returncode>>
  /\ UNCHANGED <<sessVars, audVars, scrVars, coVars, kbVars>>

\* ffprobe for width, height and frame rate; then the NamedTemporaryFile for
\* the padded video is created.  A failing ffprobe raises.
CAV_VideoInfo ==
  /\ cav_pc = "video_info"
  /\ \/ /\ padded_video_path' = "empty"
        /\ cav_pc' = "pad"
        /\ UNCHANGED cav_error
     \/ /\ cav_error' = "other"
        /\ cav_pc' = "except"
        /\ UNCHANGED padded_video_path
  /\ UNCHANGED <<audio_tenths, video_tenths, skew_tenths, screen_complete_time,
                 audio_complete_time, time_diff, audio_duration,
                 video_duration, beginning_duration, ending_duration,
                 cav_output_file, padding_runs, mux_runs, cav_result>>
  /\ UNCHANGED <<padding_returncode, mux_returncode>>
  /\ UNCHANGED <<sessVars, audVars, scrVars, coVars, kbVars>>

\* subprocess.run(padding_cmd): ffmpeg writes the padded video and exits 0,
\* or it exits non-zero, which run() without check does not report; or run()
\* itself raises because ffmpeg cannot be executed.
CAV_Pad ==
  /\ cav_pc = "pad"
  /\ \/ /\ padding_runs' = padding_runs + 1
        /\ \/ padded_video_path' = "data" /\ padding_returncode' = {0}
           \/ padding_returncode' = {1} /\ UNCHANGED padded_video_path
        /\ cav_pc' = "mux"
        /\ UNCHANGED cav_error
     \/ /\ cav_error' = "tool"
        /\ cav_pc' = "except"
        /\ UNCHANGED <<padding_runs, padded_video_path, padding_returncode>>
  /\ UNCHANGED <<audio_tenths, video_tenths, skew_tenths, screen_complete_time,
                 audio_complete_time, time_diff, audio_duration,
                 video_duration, beginning_duration, ending_duration,
                 cav_output_file, mux_runs, cav_result, mux_returncode>>
  /\ UNCHANGED <<sessVars, audVars, scrVars, coVars, kbVars>>

\* subprocess.run(output_cmd): ffmpeg writes output_file from the padded
\* video and exits 0, or it exits non-zero, which run() without check does
\* not report; or run() itself raises.
CAV_Mux ==
  /\ cav_pc = "mux"
  /\ \/ /\ mux_runs' = mux_runs + 1
        /\ \/ /\ padded_video_path = "data"
              /\ cav_output_file' = "data"
              /\ mux_returncode' = {0}
           \/ mux_returncode' = {1} /\ UNCHANGED cav_output_file
        /\ cav_pc' = "cleanup"
        /\ UNCHANGED cav_error
     \/ /\ cav_error' = "tool"
        /\ cav_pc' = "except"
        /\ UNCHANGED <<mux_runs, cav_output_file, mux_returncode>>
  /\ UNCHANGED <<audio_tenths, video_tenths, skew_tenths, screen_complete_time,
                 audio_complete_time, time_diff, audio_duration,
                 video_duration, beginning_duration, ending_duration,
                 padded_video_path, padding_runs, cav_result,
                 padding_returncode>>
  /\ UNCHANGED <<sessVars, audVars, scrVars, coVars, kbVars>>

\* "try: os.remove(padded_video_path) except Exception: ..." and then
\* "return output_file": a failing removal is swallowed.
CAV_Cleanup ==
  /\ cav_pc = "cleanup"
  /\ \/ padded_video_path' = "absent"
     \/ UNCHANGED padded_video_path
  /\ cav_result' = "path"
  /\ cav_pc' = "returned"
  /\ UNCHANGED <<audio_tenths, video_tenths, skew_tenths, screen_complete_time,
                 audio_complete_time, time_diff, audio_duration,
                 video_duration, beginning_duration, ending_duration,
                 cav_output_file, padding_runs, mux_runs, cav_error>>
  /\ UNCHANGED <<padding_returncode, mux_returncode>>
  /\ UNCHANGED <<sessVars, audVars, scrVars, coVars, kbVars>>

\* "except Exception: ... return None".
CAV_Except ==
  /\ cav_pc = "except"
  /\ cav_result' = "None"
  /\ cav_pc' = "returned"
  /\ UNCHANGED <<audio_tenths, video_tenths, skew_tenths, screen_complete_time,
                 audio_complete_time, time_diff, audio_duration,
                 video_duration, beginning_duration, ending_duration,
                 padded_video_path, cav_output_file, padding_runs, mux_runs,
                 cav_error>>
  /\ UNCHANGED <<padding_returncode, mux_returncode>>
  /\ UNCHANGED <<sessVars, audVars, scrVars, coVars, kbVars>>

NextMerger ==
  \/ \E a \in 0..MaxTenths, v \in 0..MaxTenths,
        screenAt \in 0..MaxClockTenths, audioAt \in 0..MaxClockTenths :
       CAV_Handoff(a, v, screenAt, audioAt)
  \/ \E a \in 0..MaxTenths, v \in 0..MaxTenths : CAV_CallDefault(a, v)
  \/ CAV_ProbeAudio
  \/ CAV_ProbeVideo
  \/ CAV_Compute
  \/ CAV_Validate
  \/ CAV_VideoInfo
  \/ CAV_Pad
  \/ CAV_Mux
  \/ CAV_Cleanup
  \/ CAV_Except

\* ----------------------------------------------- KeyboardShortcutHandler
\* Shift+Alt+X, Shift+Alt+Z and Ctrl+C.
AUDIO_SHORTCUT == {"shift", "alt", "x"}

VIDEO_SHORTCUT == {"shift", "alt", "z"}

EXIT_COMBO == {"ctrl_l", "c"}

ShortcutKeys == AUDIO_SHORTCUT \cup VIDEO_SHORTCUT \cup EXIT_COMBO

\* Keys the listener reports: the shortcut keys, the characters that
\* Shift+Alt+X and Shift+Alt+Z produce on a Mac ("ogonek", "cedilla"), and a
\* key that belongs to no shortcut.
Keys == ShortcutKeys \cup {"ogonek", "cedilla", "other"}

InitKeyboard ==
  /\ current = {}
  /\ pressed = {}
  /\ toggle_calls = 0
  /\ toggle_mode = "none"
  /\ kb_status = "started"
  /\ kb_is_running = TRUE

\* callbacks['status'](...) and callbacks['toggle'](mode): the callback
\* returns, or it raises and the except clause reports the error.
Toggle(mode, message) ==
  /\ toggle_calls' = toggle_calls + 1
  /\ toggle_mode' = mode
  /\ kb_status' \in {message, "error"}
  /\ UNCHANGED kb_is_running

\* _handle_keypress(key, current), called by the listener for every press
\* event, a repeated press of a held key included.
KB_Press(key) ==
  /\ kb_is_running
  /\ toggle_calls < MaxToggles
  /\ pressed' = pressed \cup {key}
  /\ current' = IF key \in ShortcutKeys THEN current \cup {key} ELSE current
  /\ IF key = "ogonek"
       THEN Toggle("audio", "audio_char")
     ELSE IF key = "cedilla"
       THEN Toggle("video", "video_char")
     ELSE IF AUDIO_SHORTCUT \subseteq current'
       THEN Toggle("audio", "audio_keys")
     ELSE IF VIDEO_SHORTCUT \subseteq current'
       THEN Toggle("video", "video_keys")
     ELSE IF EXIT_COMBO \subseteq current'
       THEN /\ kb_status' = "exiting"
            /\ kb_is_running' = FALSE
            /\ UNCHANGED <<toggle_calls, toggle_mode>>
     ELSE UNCHANGED <<toggle_calls, toggle_mode, kb_status, kb_is_running>>
  /\ UNCHANGED <<sessVars, audVars, scrVars, coVars, mrgVars>>

\* _handle_key_release(key, current), called by the listener when a held
\* key is released.
KB_Release(key) ==
  /\ kb_is_running
  /\ key \in pressed
  /\ pressed' = pressed \ {key}
  /\ current' = current \ {key}
  /\ UNCHANGED <<toggle_calls, toggle_mode, kb_status, kb_is_running>>
  /\ UNCHANGED <<sessVars, audVars, scrVars, coVars, mrgVars>>

NextKeyboard ==
  \/ \E key \in Keys : KB_Press(key)
  \/ \E key \in Keys : KB_Release(key)

\* -------------------------------------------------------- specifications
Init ==
  /\ InitSession /\ InitAudio /\ InitScreen /\ InitCoordinator /\ InitMerger
  /\ InitKeyboard

Spec == Init /\ [][Next]_vars

SpecAudio == Init /\ [][NextAudio]_vars

\* The main thread of record_audio_only, which runs record_audio.
RA_Main == AO_Begin \/ RA_Open \/ RA_Read \/ RA_Check \/ RA_Full \/ RA_Save

\* Scheduling of the audio engine: its main thread keeps running and the
\* stream keeps delivering frames.  Nothing forces the owner to set the manual
\* stop event, nor the timer or the monitor thread to run.
FairSpecAudio == SpecAudio /\ WF_vars(RA_Main)

\* The monitor_events thread of record_audio_only.
AO_Monitor == AO_MonitorPoll \/ AO_MonitorWake

\* Scheduling of record_audio_only with all three of its threads running:
\* the main thread, monitor_events and duration_timer.  Nothing forces the
\* owner to set the manual stop event.
FairSpecAudioThreads ==
  /\ SpecAudio
  /\ WF_vars(RA_Main)
  /\ WF_vars(AO_Monitor)
  /\ WF_vars(AO_Timer)

\* Scheduling of record_audio_only where only runnable threads are sure to
\* run: the main thread and monitor_events.  duration_timer is inside
\* time.sleep(duration) and becomes runnable when that time has passed since
\* the call (7200 seconds for a RecordingSession), which no step of the
\* session brings about.
FairSpecAudioRunnable ==
  /\ SpecAudio
  /\ WF_vars(RA_Main)
  /\ WF_vars(AO_Monitor)

SpecAudioTimed == Init /\ [][NextAudioTimed]_vars

SpecScreen == Init /\ [][NextScreen]_vars

\* Scheduling of record_screen: its main thread and the watcher thread keep
\* running, and an encoder that received SIGTERM ends.  Nothing forces the
\* encoder to end by itself or the owner to set the stop event.
FairSpecScreen ==
  /\ SpecScreen
  /\ WF_vars(RS_Main)
  /\ WF_vars(Watcher)
  /\ WF_vars(P_Terminated)

SpecCoordinator == Init /\ [][NextCoordinator]_vars

SpecMerger == Init /\ [][NextMerger]_vars

SpecKeyboard == Init /\ [][NextKeyboard]_vars

\* ---------------------------------------------------------------- claims
\* The worker thread i is inside the engine call of its session.
InEngine(i) ==
  w[i].pc \in {"a_open", "a_run", "a_save", "v_launch", "v_settle", "v_run", "v_join"}

Capturing(i) == w[i].pc \in {"a_run", "v_settle", "v_run"}

SessionFields == <<is_recording, recording_path, recording_thread, manual_stop_event,
                   recording_mode, recording_actually_started>>

\* C1: a start() whose check finds is_recording true returns False and
\* changes no field of the session (stop event, mode, started flag, worker
\* thread, path), no event and no worker.
C1_StartRejectedWhileActive ==
  [][ (callerPc = "start_check" /\ is_recording /\ callerPc' # callerPc)
        => /\ callerPc' = "idle"
           /\ ret'.op = "start_false"
           /\ UNCHANGED <<SessionFields, events, w, nStarted>> ]_vars

\* C1 witness: a start() was rejected while the session's worker is capturing.
C1_Witness ==
  /\ ret.op = "start_false"
  /\ is_recording
  /\ recording_thread # None
  /\ Capturing(recording_thread)

C3_CancelMonotoneSingleWriter ==
  [][ \A e \in EventIds :
        /\ events[e] => events'[e]
        /\ events'[e] # events[e]
             => (callerPc = "stop_check" /\ callerPc' = "stop_join"
                 /\ e = manual_stop_event) ]_vars

\* C3 witness: the audio engine has relayed a stop event that stop() set.
C3_Witness ==
  \E i \in SessionIds :
    w[i].pc = "a_run" /\ w[i].stop /\ ~w[i].dur /\ events[w[i].ev]

\* C4: every accepted start() installs a stop event that no earlier session
\* or worker holds and that is unset; the event a worker uses was allocated
\* by its own session or a later one, never by an earlier one.
C4_FreshSignalPerStart ==
  /\ [][ (callerPc = "start_check" /\ callerPc' = "start_spawn")
          => /\ manual_stop_event' \notin
                  ({manual_stop_event} \cup {w[i].ev : i \in SessionIds})
             /\ ~events'[manual_stop_event'] ]_vars
  /\ [](\A i \in SessionIds : w[i].ev # None => w[i].ev >= i)

\* C4 witness: session 1 was cancelled and session 2 captures with its own,
\* unset stop event.
C4_Witness ==
  /\ nStarted >= 2
  /\ events[1]
  /\ ~events[2]
  /\ Capturing(2)
  /\ w[2].ev = 2

C5_OneChunkAfterStop == readsAfterManualStop <= 1

\* C6 as stated: once the stop event is set while the encoder runs, the
\* encoder eventually receives SIGTERM.
C6_SigtermEventuallySent ==
  (rs_stop_event /\ process = "running") ~> sigterm_sent

\* C6: once the stop event is set while the encoder runs (the settle delay
\* included), record_screen eventually returns, the encoder having received
\* SIGTERM or having exited by itself.
C6_CancelledScreenReturns ==
  (rs_stop_event /\ process = "running")
    ~> (rs_pc = "returned" /\ (sigterm_sent \/ exit_code \in NaturalExitCodes))

\* C6 witness: the stop event was set during the settle delay, the encoder
\* got SIGTERM and record_screen has returned.
C6_Witness ==
  /\ rs_stop_set_at = "settle"
  /\ sigterm_sent
  /\ rs_pc = "returned"

\* C7: os.kill is never called on an encoder that has already exited.
C7_NoSignalAfterExit == ~signalled_after_exit

\* The order combine_audio_video assumes (recorders/utils.py).
Rank(e) ==
  CASE e = "audio_starts" -> 1
    [] e = "video_starts" -> 2
    [] e = "video_ends" -> 3
    [] e = "audio_ends" -> 4

\* C9: the capture events of a screen+audio session happen in the order
\* audio starts, video starts, video ends, audio ends.
C9_CompletionOrdering ==
  \A i, j \in 1..Len(timeline) : i < j => Rank(timeline[i]) < Rank(timeline[j])

ScreenCaptured == screen_exit_code = 0 /\ screen_process = "exited"

AudioCaptured == audio_file = "path"

\* C10: the merger is invoked, and an output path returned, only when both
\* the screen capture and the audio capture produced a result.
C10_MergeOnlyWithBothResults ==
  (rsa_pc = "returned" /\ (combine_called \/ result = "path"))
    => (ScreenCaptured /\ AudioCaptured)

\* The caller is inside start().
InStart == callerPc \in {"start_check", "start_spawn", "start_flag"}

\* The caller is inside stop(), in join(timeout=5) on a worker that is alive.
WaitingInJoin ==
  /\ callerPc = "stop_join"
  /\ recording_thread # None
  /\ Alive(recording_thread)

\* C11 as stated: start() can always take its next step, whatever the workers
\* do, and the caller never waits for a worker inside a call of the session.
C11_CallerNeverWaits ==
  /\ InStart => ENABLED CallerStep
  /\ ~WaitingInJoin

\* C11: start() and stop() can always take their next step, whatever the
\* workers do: start() never waits for a capture to begin or finish, and
\* stop() waits for the worker no longer than its join timeout, then returns
\* the (path, mode) pair itself.
C11_CallsNeverBlockOnWorker ==
  callerPc # "idle" => ENABLED CallerStep

\* C11 witness: start() has returned True and the worker it launched has not
\* run yet.
C11_Witness ==
  /\ callerPc = "idle"
  /\ ret.op = "start_true"
  /\ recording_thread # None
  /\ w[recording_thread].pc = "spawned"

\* The check that follows the settle delay has been made in worker i and it
\* found the encoder exited: nothing was invoked.
CheckFoundExited(i) ==
  /\ w[i].mode = "video"
  /\ w[i].pc \in {"v_run", "v_join", "ret", "done"}
  /\ w[i].proc \in {"exit0", "exit1"}
  /\ w[i].started_calls = 0

C13_RecordingEntered ==
  /\ \A i \in SessionIds :
       (i = nStarted /\ w[i].mode = "audio" /\ w[i].pc = "a_run")
         => recording_actually_started
  /\ recording_actually_started
       => \E j \in SessionIds : w[j].mode = "video" /\ w[j].started_calls > 0

\* C14: when the latest session is over, by a failure caught in its worker
\* or by stop() having returned, the session is not left marked as recording,
\* so the next start() is accepted.
C14_OverSessionRestartable ==
  (/\ callerPc = "idle"
   /\ nStarted > 0
   /\ (w[nStarted].pc = "failed" \/ ret.op = "stop"))
    => ~is_recording

\* C15: the stop() that follows start('audio') returns a path, unless a
\* device or a file write failed in that session's capture (stated for a
\* session whose worker has ended).
C15_AudioSessionYieldsPath ==
  \A i \in SessionIds :
    (/\ callerPc = "idle"
     /\ ret.op \in {"stop", "stop_none"}
     /\ i = nStarted
     /\ w[i].mode = "audio"
     /\ ~Alive(i)
     /\ ~w[i].fault)
      => ret.path # None

\* C16: the mode in the pair that stop() returns is the mode of the start()
\* call that began the session being stopped, whatever rejected start()
\* calls asked for in between.
C16_ModeOfStoppedSession ==
  (callerPc \in {"stop_reset", "idle"} /\ ret.op \in {"stop_pending", "stop"})
    => ret.mode = w[nStarted].mode

\* C16 witness: stop() has returned the session's mode after a start() with
\* the other mode was rejected during the session.
C16_Witness ==
  /\ callerPc = "idle"
  /\ ret.op = "stop"
  /\ callerArg \in Modes
  /\ callerArg # ret.mode
  /\ ret.mode = w[nStarted].mode

C18_PaddingSum ==
  /\ cav_pc \in {"validate", "video_info", "pad", "mux", "cleanup"}
       => beginning_duration + video_duration + ending_duration = audio_duration
  /\ cav_pc \in {"video_info", "pad", "mux", "cleanup"}
       => (beginning_duration >= 0 /\ ending_duration >= 0)

\* C18 witness: the padding command has run with both paddings positive.
C18_Witness ==
  /\ cav_pc = "mux"
  /\ padded_video_path = "data"
  /\ beginning_duration > 0
  /\ ending_duration > 0

\* C19: with a negative beginning or ending padding the merge raises its
\* timing error before the padding and mux commands, returns None, and
\* writes no file.
C19_NegativePaddingRejected ==
  (beginning_duration < 0 \/ ending_duration < 0)
    => /\ cav_pc \in {"validate", "except", "returned"}
       /\ padding_runs = 0
       /\ mux_runs = 0
       /\ padded_video_path = "absent"
       /\ cav_output_file = "absent"
       /\ cav_pc # "validate" => cav_error = "timing"
       /\ cav_pc = "returned" => cav_result = "None"

\* C19 witness: a merge with a negative skew has returned None.
C19_Witness ==
  /\ cav_pc = "returned"
  /\ ending_duration < 0
  /\ cav_result = "None"
  /\ cav_error = "timing"

\* The durations and the skew, as decimal numbers, give a padding of exactly
\* zero and none below zero.
ZeroPaddingInput ==
  /\ time_diff # <<>>
  /\ skew_tenths >= 0
  /\ audio_tenths >= video_tenths + skew_tenths
  /\ (skew_tenths = 0 \/ audio_tenths = video_tenths + skew_tenths)

\* C20: an input whose padding is exactly zero is never rejected as a timing
\* error.
C20_ZeroPaddingAccepted ==
  (cav_pc # "idle" /\ ZeroPaddingInput) => cav_error # "timing"

\* C21: once the temporary padded-video file has been created, it no longer
\* exists when combine_audio_video returns, on whichever path it returns.
C21_PaddedFileRemoved ==
  cav_pc = "returned" => padded_video_path = "absent"

\* C22: called without time_diff, combine_audio_video muxes the unpadded
\* video with the audio and returns the output path; the missing skew alone
\* never makes it return None.
C22_FallbackWithoutSkew ==
  (cav_pc = "returned" /\ time_diff = <<>> /\ cav_error # "other")
    => /\ cav_result = "path"
       /\ padding_runs = 0
       /\ mux_runs = 1

\* C23: combine_audio_video returns the output path only if the padding
\* command and the mux command both exited with status 0.
C23_PathOnlyIfToolsSucceeded ==
  (cav_pc = "returned" /\ cav_result = "path")
    => (padding_returncode = {0} /\ mux_returncode = {0})

\* C24: when the merge step of a session fails, the raw video file and the
\* raw audio file still exist after the coordinator has returned.
C24_RawCapturesSurviveFailedMerge ==
  (rsa_pc = "returned" /\ combine_called /\ result = "None")
    => (temp_video_path # "absent" /\ temp_audio_path # "absent")

\* C25: when the audio engine has returned and exactly one of the two
\* captures produced a file, the coordinator returns None and the file that
\* was captured still exists afterwards.
C25_GoodFilePreserved ==
  (/\ rsa_pc = "returned"
   /\ audio_file # "unset"
   /\ ScreenCaptured <=> ~AudioCaptured)
    => /\ result = "None"
       /\ ScreenCaptured => temp_video_path = "data"
       /\ AudioCaptured => temp_audio_path = "data"

\* The except clause of worker thread i has called set_status with its error
\* message.
ErrorReported(i) == w[i].pc \in {"except_flag", "failed"}

\* The audio worker i ended after sf.write stored its capture.
RawAudioFileLeft(i) == w[i].mode = "audio" /\ w[i].pc = "done" /\ ~w[i].fault

C27_AudioEngineReturnsNone ==
  ao_pc = "returned" => ra_result \in {"path", "None"}

C29_BoundedAudioCapture ==
  /\ [](offset <= max_frames)
  /\ []((ao_pc = "save" /\ ~stop_event) => offset = max_frames)
  /\ [][offset' # offset
          => /\ this_chunk' = Min(chunk_size, max_frames - offset)
             /\ offset' = offset + this_chunk']_vars
  /\ <>(ao_pc = "returned")

\* C29 witness: the stop event was never set, the last read asked for less
\* than a whole chunk, and the loop has ended with the buffer full.
C29_Witness ==
  /\ ao_pc = "save"
  /\ ~stop_event
  /\ ~ao_manual_stop_event
  /\ ~duration_stop_event
  /\ offset = max_frames
  /\ this_chunk < chunk_size

\* C30: record_screen always ends by returning, and it returns the output
\* path exactly when the encoder process exited with code 0 or with -15;
\* with any other exit code, or without a process, it returns None.
C30_ExitClassification ==
  rs_pc = "returned"
    => /\ rs_result \in {"path", "None"}
       /\ (rs_result = "path")
            <=> (process = "exited" /\ exit_code \in {0, SigtermCode})

\* C30 witness: an encoder ended by SIGTERM was classified as a success.
C30_Witness ==
  /\ rs_pc = "returned"
  /\ process = "exited"
  /\ exit_code = SigtermCode
  /\ rs_result = "path"

\* C31: the frames read so far lie in recording[0:offset] in the order they
\* were read, none missing, during the loop and in the buffer that is
\* written to the file.
C31_BufferIntegrity ==
  recording = [k \in 1..offset |-> k]

\* C31 witness: the loop ran to the cap, its last read being shorter than a
\* chunk, and the file was written.
C31_Witness ==
  /\ ao_pc = "returned"
  /\ ra_result = "path"
  /\ offset = max_frames
  /\ this_chunk < chunk_size
  /\ Len(recording) = max_frames

\* C32: stop_event is set only when manual_stop_event or duration_stop_event
\* is set or record_audio raised; and once either of the two events is set,
\* stop_event is eventually set and the capture eventually ends.
C32_CombinedStop ==
  /\ [](stop_event
          => (ao_manual_stop_event \/ duration_stop_event \/ ra_result = "raised"))
  /\ (ao_manual_stop_event \/ duration_stop_event) ~> stop_event
  /\ (ao_manual_stop_event \/ duration_stop_event) ~> (ao_pc = "returned")

\* C32 witness: the duration timer alone ended a capture before the cap.
C32_Witness ==
  /\ duration_stop_event
  /\ ~ao_manual_stop_event
  /\ stop_event
  /\ ao_pc = "returned"
  /\ ra_result = "path"
  /\ offset < max_frames

\* C33: once stop() has returned and no start() has been called since, the
\* session holds no path and no mode; and a further stop() returns
\* (None, None), emits no status message, sets no stop event and changes no
\* field.
C33_HandedOffOnce ==
  /\ []((callerPc = "idle" /\ ret.op \in {"stop", "stop_none"})
          => (recording_path = None /\ recording_mode = "none"))
  /\ [][(/\ callerPc = "stop_check"
         /\ callerPc' # callerPc
         /\ ret.op \in {"stop", "stop_none"})
          => /\ callerPc' = "idle"
             /\ ret' = [op |-> "stop_none", path |-> None, mode |-> "none"]
             /\ UNCHANGED <<is_recording, recording_path, recording_thread,
                            manual_stop_event, recording_mode,
                            recording_actually_started, status, events>>]_vars

C35_FailureClearsFlag ==
  \A i \in SessionIds :
    (/\ i = nStarted
     /\ w[i].pc = "failed"
     /\ callerPc = "idle"
     /\ ret.op = "start_true")
      => ~is_recording

ShortcutPressed(S) ==
  \/ AUDIO_SHORTCUT \subseteq S
  \/ VIDEO_SHORTCUT \subseteq S
  \/ "ogonek" \in S
  \/ "cedilla" \in S

\* C37: the tracked set is the shortcut keys pressed and not yet released;
\* the toggle callback is invoked once by the event that makes a recording
\* shortcut fully pressed, and by no other event.
C37_OneTogglePerPress ==
  /\ [](current = pressed \cap ShortcutKeys)
  /\ [][ /\ toggle_calls' \in {toggle_calls, toggle_calls + 1}
         /\ (toggle_calls' = toggle_calls + 1)
              <=> (~ShortcutPressed(pressed) /\ ShortcutPressed(pressed')) ]_vars

=============================================================================
